---- MODULE Spec2Model ----
(***************************************************************************)
(* The replication pipeline of kansoy/naturecc: run_all.main calls         *)
(* run_tables (which calls run_analysis) and then run_figures.  One run    *)
(* is a single thread of control; the state is the input files on disk,    *)
(* the position of the run, the values run_analysis has computed so far,   *)
(* the output files written by this run and the error the run ended with.  *)
(*                                                                         *)
(* Numbers.  A percentage or ratio rounded to one decimal is an integer    *)
(* number of tenths (33.3 is 333).  An unrounded quotient is the pair      *)
(* [num, den] of its exact numerator and denominator.  A float that may be *)
(* NaN or infinite is the record [nan, inf, v].                            *)
(***************************************************************************)
EXTENDS Integers, Sequences, FiniteSets, TLC

VARIABLES
    input,          \* the input CSV files on disk (never written by a run)
    pc,             \* the statement the run is about to execute
    err,            \* <<>> or <<the raised error>>
    paired_df,      \* analysis.py paired_df (line 92)
    mw,             \* outcome of stats.mannwhitneyu (line 97)
    main_numbers,   \* <<>> or <<the dict of lines 112-158>>
    json_file,      \* outputs/analysis/main_numbers.json: <<>> or <<record>>
    csv_file,       \* outputs/analysis/within_institution_rates.csv
    loaded,         \* <<>> or <<main_numbers as read back by run_tables>>
    t1,             \* <<>> or <<Table 1 as built by table1_overview>>
    written,        \* output files written so far by this run
    reads,          \* how many times pd.read_csv has read each input file
    t2,             \* <<>> or <<Table 2: the rows of its DataFrame>>
    fig             \* <<>> or <<what fig_commitment_grouped has drawn>>

vars == <<input, pc, err, paired_df, mw, main_numbers, json_file, csv_file,
          loaded, t1, written, reads, t2, fig>>

----------------------------------------------------------------------------
(* Bounds of the input tables.                                             *)

MaxSpeeches == 2
MaxMinutes == 2
MaxEcbMinutes == 3
MaxExcerpts == 2
MaxStage1 == 2
MaxRateDocs == 11
MaxMissing == 2
MaxLevelExcerpts == 2
MaxDuplicates == 2

----------------------------------------------------------------------------
(* Cell values.                                                            *)

\* a null cell of a string column (pandas NaN)
NaN == "NaN"

\* a null cell of an id column (pandas NaN in speech_id / minute_id)
NaNId == 0 - 1

\* a null cell of the ensemble_level column; levels are tenths (2.5 is 25)
NaNLevel == 0 - 1

ECB == "European Central Bank"
BoJ == "Bank of Japan"
Fed == "Federal Reserve"

EXCLUDED_NON_CENTRAL ==
    { "Bank for International Settlements",
      "International Monetary Fund",
      "Office of the Superintendent of Financial Institutions",
      "Swiss Federal Banking Commission" }

\* dates are yyyymmdd; pd.Timestamp("2019-11-01") and pd.Timestamp("2019-07-01")
LAGARDE_APPOINTMENT_DATE == 20191101
LAGARDE_COUNT_WINDOW_START == 20190701

\* a Date cell: text that pd.to_datetime parses to ymd, or text it cannot parse
DateText(ymd) == [parses |-> TRUE, ymd |-> ymd]
Unparseable == [parses |-> FALSE, ymd |-> 0]

\* pd.to_datetime(..., errors="coerce"): NaT for text that does not parse
NaT == [nat |-> TRUE, ymd |-> 0]
to_datetime(cell) ==
    IF cell.parses THEN [nat |-> FALSE, ymd |-> cell.ymd] ELSE NaT

\* a window that opens the day after its start
StrictlyAfter(dt, start) == (~dt.nat) /\ dt.ymd > start

\* date_dt >= pd.Timestamp(start): a comparison with NaT is False
OnOrAfter(dt, start) == (~dt.nat) /\ dt.ymd >= start

----------------------------------------------------------------------------
(* Sequences and sets.                                                     *)

Range(s) == { s[i] : i \in DOMAIN s }

SeqsUpTo(S, n) == UNION { [1..k -> S] : k \in 0..n }

\* alphabetical order of the institution names of the model: sorted()
InstOrder == << BoJ, ECB, Fed >>

RECURSIVE SortedFrom(_, _)
SortedFrom(S, i) ==
    IF i > Len(InstOrder) THEN <<>>
    ELSE (IF InstOrder[i] \in S THEN <<InstOrder[i]>> ELSE <<>>)
         \o SortedFrom(S, i + 1)

sorted(S) == SortedFrom(S, 1)

----------------------------------------------------------------------------
(* Floats.                                                                 *)

Float(v) == [kind |-> "num", v |-> v]
FNaN == [kind |-> "nan", v |-> 0]
FInf == [kind |-> "inf", v |-> 0]

\* round(n / d, 0 decimals of the unit) for d > 0, as the set of results the
\* double arithmetic can give: the nearest unit, and on an exact tie either
\* neighbour (the double that stands for the quotient lies on the tie only
\* when it is representable; otherwise it lies just below or just above it).
RoundHalf(n, d) ==
    LET q == n \div d
        r == n - q * d
    IN  IF 2 * r < d THEN {q}
        ELSE IF 2 * r > d THEN {q + 1}
        ELSE {q, q + 1}

\* round(100.0 * k / n, 1) in tenths of a percent, n > 0
PctRound(k, n) == RoundHalf(1000 * k, n)

\* round(100.0 * k / n, 1) where k is a numpy integer (the .sum() of a boolean
\* Series): numpy does not raise on a zero divisor, it yields nan (0/0) or inf
NumpyPctRound(k, n) ==
    IF n = 0 THEN (IF k = 0 THEN {FNaN} ELSE {FInf})
    ELSE { Float(t) : t \in PctRound(k, n) }

----------------------------------------------------------------------------
(* The input files.                                                        *)

FileNames ==
    { "speeches_raw.csv", "minutes_raw.csv", "speeches_keyword_filtered.csv",
      "minutes_keyword_filtered.csv", "speeches_verified.csv",
      "minutes_verified.csv", "excerpts_classified.csv" }

\* the columns a complete input file holds, as far as the pipeline reads them
FullColumns ==
    [ f \in FileNames |->
        CASE f = "speeches_raw.csv" ->
               {"year", "institution", "has_climate", "institution_harmonised"}
          [] f = "minutes_raw.csv" ->
               {"Date", "year", "institution", "Language", "has_climate"}
          [] f = "speeches_keyword_filtered.csv" -> {"speech_id"}
          [] f = "minutes_keyword_filtered.csv" -> {"minute_id"}
          [] f = "speeches_verified.csv" -> {"year", "speech_id"}
          [] f = "minutes_verified.csv" -> {"year", "minute_id"}
          [] f = "excerpts_classified.csv" ->
               {"doc_type", "speech_id", "minute_id", "institution",
                "ensemble_level", "openai_level", "year"} ]

SpeechRow(inst, harm) ==
    [institution |-> inst, institution_harmonised |-> harm]

MinuteRow(inst, date) == [institution |-> inst, Date |-> date]

\* an excerpt row; the id of the other document type is null
SpeechExcerpt(id, inst, level) ==
    [doc_type |-> "speech", speech_id |-> id, minute_id |-> NaNId,
     institution |-> inst, ensemble_level |-> level]

MinuteExcerpt(id, inst, level) ==
    [doc_type |-> "minute", speech_id |-> NaNId, minute_id |-> id,
     institution |-> inst, ensemble_level |-> level]

\* positional ids: speeches.index / minutes.index of row i (rows count from 1)
speech_id(i) == i - 1
minute_id(i) == i - 1

----------------------------------------------------------------------------
(* run_analysis: schema check.                                             *)

\* the calls of _require_columns in run_analysis, in order
AnalysisChecks ==
    << [name |-> "speeches_raw.csv",
        cols |-> <<"year", "institution", "has_climate", "institution_harmonised">>],
       [name |-> "minutes_raw.csv",
        cols |-> <<"Date", "year", "institution", "Language", "has_climate">>],
       [name |-> "speeches_keyword_filtered.csv", cols |-> <<"speech_id">>],
       [name |-> "minutes_keyword_filtered.csv", cols |-> <<"minute_id">>],
       [name |-> "excerpts_classified.csv",
        cols |-> <<"doc_type", "speech_id", "minute_id", "institution",
                   "ensemble_level", "openai_level">>] >>

\* a check that reports only the first missing column
MissingColumnsFirstOnly(columns, cols) ==
    LET Absent(c) == c \notin columns
        all == SelectSeq(cols, Absent)
    IN  IF all = <<>> THEN <<>> ELSE << Head(all) >>

\* missing = [c for c in cols if c not in df.columns]
MissingColumns(columns, cols) ==
    LET Absent(c) == c \notin columns IN SelectSeq(cols, Absent)

\* _require_columns: <<>> when nothing is missing, else <<the ValueError>>
require_columns(columns, name, cols, caller) ==
    LET missing == MissingColumns(columns, cols)
    IN  IF missing # <<>>
        THEN << [type |-> "ValueError", name |-> name, missing |-> missing,
                 where |-> caller] >>
        ELSE <<>>

\* the checks run in order; the first that raises ends the run
RECURSIVE RunChecks(_, _, _, _)
RunChecks(columns, checks, i, caller) ==
    IF i > Len(checks) THEN <<>>
    ELSE LET e == require_columns(columns[checks[i].name], checks[i].name,
                                  checks[i].cols, caller)
         IN  IF e # <<>> THEN e ELSE RunChecks(columns, checks, i + 1, caller)

----------------------------------------------------------------------------
(* run_analysis: aggregation.                                              *)

\* an exclusion list that lacks the Swiss Federal Banking Commission
IsExcludedThreeNames(harm) ==
    harm \in { "Bank for International Settlements",
               "International Monetary Fund",
               "Office of the Superintendent of Financial Institutions" }

IsExcluded(harm) == harm \in EXCLUDED_NON_CENTRAL

\* speeches[~speeches["institution_harmonised"].isin(EXCLUDED_NON_CENTRAL)]
speeches_core(speeches) ==
    LET Keep(row) == ~IsExcluded(row.institution_harmonised)
    IN  SelectSeq(speeches, Keep)

\* set(ex.loc[ex["doc_type"] == "speech", "speech_id"].dropna().astype(int))
speech_ids_verified(ex) ==
    { ex[i].speech_id : i \in { j \in DOMAIN ex :
        ex[j].doc_type = "speech" /\ ex[j].speech_id # NaNId } }

minute_ids_verified(ex) ==
    { ex[i].minute_id : i \in { j \in DOMAIN ex :
        ex[j].doc_type = "minute" /\ ex[j].minute_id # NaNId } }

\* Series.nunique(): the number of distinct non-null values
nunique(values, null) == Cardinality(Range(values) \ {null})

\* int(ex.loc[ex["doc_type"] == "speech", "speech_id"].nunique())
verified_speech_docs(ex) ==
    LET IsSpeech(e) == e.doc_type = "speech"
        rows == SelectSeq(ex, IsSpeech)
    IN  nunique([i \in DOMAIN rows |-> rows[i].speech_id], NaNId)

verified_minute_docs(ex) ==
    LET IsMinute(e) == e.doc_type = "minute"
        rows == SelectSeq(ex, IsMinute)
    IN  nunique([i \in DOMAIN rows |-> rows[i].minute_id], NaNId)

\* rows of a table whose "institution" equals inst, by row number
RowsOf(table, inst) == { i \in DOMAIN table : table[i].institution = inst }

\* the unrounded 100.0 * k / n of lines 88-89
Rate(k, n) == [num |-> 100 * k, den |-> n]

\* a loop body that continues only when both subsets are empty
paired_row_skips_if_both_empty(speeches, minutes, ex, inst) ==
    LET s_sub == RowsOf(speeches, inst)
        m_sub == RowsOf(minutes, inst)
    IN  IF Cardinality(s_sub) = 0 /\ Cardinality(m_sub) = 0 THEN <<>>
        ELSE << [institution |-> inst,
                 speech_rate |->
                    Rate(Cardinality({ i \in s_sub :
                            speech_id(i) \in speech_ids_verified(ex) }),
                         Cardinality(s_sub)),
                 minute_rate |->
                    Rate(Cardinality({ i \in m_sub :
                            minute_id(i) \in minute_ids_verified(ex) }),
                         Cardinality(m_sub))] >>

\* a loop body whose numerators count all verified ids, not the institution's
paired_row_counts_all_verified(speeches, minutes, ex, inst) ==
    LET s_sub == RowsOf(speeches, inst)
        m_sub == RowsOf(minutes, inst)
    IN  IF Cardinality(s_sub) = 0 \/ Cardinality(m_sub) = 0 THEN <<>>
        ELSE << [institution |-> inst,
                 speech_rate |->
                    Rate(Cardinality(speech_ids_verified(ex)), Cardinality(s_sub)),
                 minute_rate |->
                    Rate(Cardinality(minute_ids_verified(ex)), Cardinality(m_sub))] >>

\* one iteration of the loop of lines 80-91: <<>> on continue, else <<row>>
paired_row(speeches, minutes, ex, inst) ==
    LET s_sub == RowsOf(speeches, inst)
        m_sub == RowsOf(minutes, inst)
    IN  IF Cardinality(s_sub) = 0 \/ Cardinality(m_sub) = 0 THEN <<>>
        ELSE << [institution |-> inst,
                 speech_rate |->
                    Rate(Cardinality({ i \in s_sub :
                            speech_id(i) \in speech_ids_verified(ex) }),
                         Cardinality(s_sub)),
                 minute_rate |->
                    Rate(Cardinality({ i \in m_sub :
                            minute_id(i) \in minute_ids_verified(ex) }),
                         Cardinality(m_sub))] >>

RECURSIVE PairedLoop(_, _, _, _, _)
PairedLoop(speeches, minutes, ex, insts, i) ==
    IF i > Len(insts) THEN <<>>
    ELSE paired_row(speeches, minutes, ex, insts[i])
         \o PairedLoop(speeches, minutes, ex, insts, i + 1)

\* for inst in sorted(minutes["institution"].dropna().unique()): ...
paired_rows(speeches, minutes, ex) ==
    PairedLoop(speeches, minutes, ex,
               sorted({ minutes[i].institution : i \in DOMAIN minutes } \ {NaN}),
               1)

\* stats.ttest_rel(paired_df["speech_rate"], paired_df["minute_rate"]): an
\* empty paired_df has no columns and the subscript raises KeyError; one pair
\* gives a nan statistic; the value itself is not modelled
ttest_rel(paired) ==
    IF Len(paired) = 0
    THEN << [type |-> "KeyError", name |-> "", missing |-> <<"speech_rate">>,
             where |-> "ttest_rel"] >>
    ELSE <<>>

paired_t(paired) == IF Len(paired) < 2 THEN "nan" ELSE "num"

\* ex.loc[ex["doc_type"] == t, "ensemble_level"].dropna()
levels(ex, t) ==
    LET Labelled(e) == e.doc_type = t /\ e.ensemble_level # NaNLevel
        rows == SelectSeq(ex, Labelled)
    IN  [i \in DOMAIN rows |-> rows[i].ensemble_level]

\* stats.mannwhitneyu on an empty sample raises ValueError or returns nan,
\* depending on the SciPy release; otherwise a number (not modelled)
mannwhitneyu(x, y) ==
    IF Len(x) = 0 \/ Len(y) = 0 THEN {"ValueError", "nan"} ELSE {"num"}

\* round(float(u_p), 3) in thousandths where it is known: two samples of one
\* value each, the values different, take the exact method (no ties, n <= 8);
\* U is 0 or 1 with probability 1/2 each, so the two-sided p is 1.0.  Any
\* other p-value is left as the outcome of mannwhitneyu.
mannwhitney_p(x, y, outcome) ==
    IF outcome = "num" /\ Len(x) = 1 /\ Len(y) = 1 /\ x[1] # y[1]
    THEN 1000 ELSE outcome

----------------------------------------------------------------------------
(* run_analysis: the ECB sub-analysis.                                     *)

\* minutes[minutes["institution"] == "European Central Bank"], by row number
ecb(minutes) == RowsOf(minutes, ECB)

\* ecb["date_dt"] = pd.to_datetime(ecb["Date"], errors="coerce")
date_dt(minutes, i) == to_datetime(minutes[i].Date)

\* ecb[ecb["date_dt"] >= pd.Timestamp(LAGARDE_COUNT_WINDOW_START)]
ecb_lagarde_main(minutes) ==
    { i \in ecb(minutes) :
        OnOrAfter(date_dt(minutes, i), LAGARDE_COUNT_WINDOW_START) }

\* ecb[ecb["date_dt"] >= pd.Timestamp(LAGARDE_APPOINTMENT_DATE)]
ecb_lagarde_appointment_window(minutes) ==
    { i \in ecb(minutes) :
        OnOrAfter(date_dt(minutes, i), LAGARDE_APPOINTMENT_DATE) }

\* minute ids of the minute excerpts whose institution is the ECB
ecb_ids(ex) ==
    { ex[i].minute_id : i \in { j \in DOMAIN ex :
        /\ ex[j].doc_type = "minute"
        /\ ex[j].institution = ECB
        /\ ex[j].minute_id # NaNId } }

\* window["minute_id"].isin(ecb_ids).sum()
ClimateDocs(window, ex) ==
    Cardinality({ i \in window : minute_id(i) \in ecb_ids(ex) })

----------------------------------------------------------------------------
(* run_analysis: the metrics record (lines 112-158).                       *)

\* the first entry of the dict literal whose division by zero raises, or ""
ZeroDivisionAt(inp) ==
    IF nunique(inp.stage1_s, NaNId) = 0 THEN "speech_false_positive_rate_pct"
    ELSE IF nunique(inp.stage1_m, NaNId) = 0 THEN "minute_false_positive_rate_pct"
    ELSE IF Len(speeches_core(inp.speeches)) = 0 THEN "speech_rate_core_denom_pct"
    ELSE IF Len(inp.minutes) = 0 THEN "minute_rate_pct"
    ELSE IF verified_minute_docs(inp.ex) = 0 THEN "gap_ratio"
    ELSE ""

\* round(100.0 * (1 - verified / stage1), 1)
FalsePositiveRate(verified, stage1) ==
    RoundHalf(1000 * (stage1 - verified), stage1)

\* round((vs / core) / (vm / total), 1): computed from the unrounded quotients
GapRatio(vs, core, vm, total) == RoundHalf(10 * vs * total, core * vm)

\* the values the dict can take when no entry raises
MainNumbers(inp, paired, mwres) ==
    LET core == speeches_core(inp.speeches)
        vs == verified_speech_docs(inp.ex)
        vm == verified_minute_docs(inp.ex)
        s1s == nunique(inp.stage1_s, NaNId)
        s1m == nunique(inp.stage1_m, NaNId)
        main == ecb_lagarde_main(inp.minutes)
        strict == ecb_lagarde_appointment_window(inp.minutes)
        IsSpeech(e) == e.doc_type = "speech"
        IsMinute(e) == e.doc_type = "minute"
    IN  { [ speech_total_core_sample |-> Len(core),
            speech_institutions_core_sample |->
                nunique([i \in DOMAIN core |-> core[i].institution_harmonised], NaN),
            minute_total |-> Len(inp.minutes),
            minute_institutions |->
                nunique([i \in DOMAIN inp.minutes |-> inp.minutes[i].institution], NaN),
            stage1_speech_docs |-> s1s,
            stage1_minute_docs |-> s1m,
            stage1_speech_excerpts |-> Len(inp.stage1_s),
            stage1_minute_excerpts |-> Len(inp.stage1_m),
            verified_speech_docs |-> vs,
            verified_minute_docs |-> vm,
            verified_speech_excerpts |-> Len(SelectSeq(inp.ex, IsSpeech)),
            verified_minute_excerpts |-> Len(SelectSeq(inp.ex, IsMinute)),
            speech_false_positive_rate_pct |-> fps,
            minute_false_positive_rate_pct |-> fpm,
            speech_rate_core_denom_pct |-> sr,
            minute_rate_pct |-> mr,
            gap_ratio |-> gap,
            paired_t_p |-> paired_t(paired),
            mannwhitney_p |->
                mannwhitney_p(levels(inp.ex, "speech"), levels(inp.ex, "minute"),
                              mwres),
            ecb_lagarde_docs |-> ClimateDocs(main, inp.ex),
            ecb_lagarde_total |-> Cardinality(main),
            ecb_lagarde_rate_pct |-> er,
            ecb_lagarde_count_window_start |-> LAGARDE_COUNT_WINDOW_START,
            ecb_lagarde_appointment_date_marker |-> LAGARDE_APPOINTMENT_DATE,
            ecb_lagarde_total_if_strict_appointment_window |-> Cardinality(strict),
            ecb_lagarde_rate_if_strict_appointment_window_pct |-> esr ] :
          fps \in FalsePositiveRate(vs, s1s),
          fpm \in FalsePositiveRate(vm, s1m),
          sr \in PctRound(vs, Len(core)),
          mr \in PctRound(vm, Len(inp.minutes)),
          gap \in GapRatio(vs, Len(core), vm, Len(inp.minutes)),
          er \in NumpyPctRound(ClimateDocs(main, inp.ex), Cardinality(main)),
          esr \in NumpyPctRound(ClimateDocs(strict, inp.ex), Cardinality(strict)) }

----------------------------------------------------------------------------
(* run_tables.                                                             *)

\* table1_overview: the rows that are taken from the record
table1_overview(m) ==
    [ metric \in { "Total documents", "Institutions", "Stage 1 documents",
                   "Stage 1 excerpts", "Stage 2 verified documents",
                   "Stage 2 verified excerpts" } |->
        CASE metric = "Total documents" ->
               [speeches |-> m.speech_total_core_sample, minutes |-> m.minute_total]
          [] metric = "Institutions" ->
               [speeches |-> m.speech_institutions_core_sample,
                minutes |-> m.minute_institutions]
          [] metric = "Stage 1 documents" ->
               [speeches |-> m.stage1_speech_docs, minutes |-> m.stage1_minute_docs]
          [] metric = "Stage 1 excerpts" ->
               [speeches |-> m.stage1_speech_excerpts,
                minutes |-> m.stage1_minute_excerpts]
          [] metric = "Stage 2 verified documents" ->
               [speeches |-> m.verified_speech_docs, minutes |-> m.verified_minute_docs]
          [] metric = "Stage 2 verified excerpts" ->
               [speeches |-> m.verified_speech_excerpts,
                minutes |-> m.verified_minute_excerpts] ]
    @@ [ metric \in { "False positive rate (%)", "Climate mention rate (%)" } |->
        CASE metric = "False positive rate (%)" ->
               [speeches |-> m.speech_false_positive_rate_pct,
                minutes |-> m.minute_false_positive_rate_pct]
          [] metric = "Climate mention rate (%)" ->
               [speeches |-> m.speech_rate_core_denom_pct,
                minutes |-> m.minute_rate_pct] ]

\* the empty cell "" of a count column of Table 2
NoCount == 0 - 1

\* ex[ex["doc_type"] == "minute"]
climate(ex) ==
    LET IsMinute(e) == e.doc_type = "minute"
    IN  SelectSeq(ex, IsMinute)

\* the groups of climate.groupby("institution"): a null key forms no group
climate_institutions(ex) ==
    { climate(ex)[i].institution : i \in DOMAIN climate(ex) } \ {NaN}

\* climate.groupby("institution")["minute_id"].nunique()
doc_counts(ex) ==
    [ inst \in climate_institutions(ex) |->
        Cardinality({ climate(ex)[i].minute_id :
                        i \in { j \in DOMAIN climate(ex) :
                                  climate(ex)[j].institution = inst } }
                    \ {NaNId}) ]

\* climate.groupby("institution").size()
excerpt_counts(ex) ==
    [ inst \in climate_institutions(ex) |->
        Cardinality({ j \in DOMAIN climate(ex) : climate(ex)[j].institution = inst }) ]

\* minutes[~minutes["institution"].isin(climate_institutions)]
\*     .groupby("institution").size()
total_minutes(minutes, ex) ==
    [ inst \in ({ minutes[i].institution : i \in DOMAIN minutes }
                  \ (climate_institutions(ex) \cup {NaN})) |->
        Cardinality(RowsOf(minutes, inst)) ]

\* a comes before b in alphabetical order
Before(a, b) ==
    \E i, j \in DOMAIN InstOrder :
        InstOrder[i] = a /\ InstOrder[j] = b /\ i < j

\* the institutions of a count column in order of name alone
RECURSIVE sort_values_by_name(_)
sort_values_by_name(count) ==
    IF DOMAIN count = {} THEN <<>>
    ELSE LET first == CHOOSE a \in DOMAIN count :
                          \A b \in DOMAIN count \ {a} : Before(a, b)
         IN  << first >>
             \o sort_values_by_name([ b \in DOMAIN count \ {first} |-> count[b] ])

\* sort_values([count, "institution"], ascending=[False, True]): the
\* institutions of a count column, largest count first, ties by name
RECURSIVE sort_values(_)
sort_values(count) ==
    IF DOMAIN count = {} THEN <<>>
    ELSE LET first == CHOOSE a \in DOMAIN count :
                          \A b \in DOMAIN count \ {a} :
                              \/ count[a] > count[b]
                              \/ count[a] = count[b] /\ Before(a, b)
         IN  << first >>
             \o sort_values([ b \in DOMAIN count \ {first} |-> count[b] ])

\* table2_institution_heterogeneity: the rows of the returned DataFrame, the
\* TOTAL row last (the climate_period column, which is built from the year
\* column of the minutes, is left out)
table2_institution_heterogeneity(minutes, ex) ==
    LET docs == doc_counts(ex)
        excerpts == excerpt_counts(ex)
        totals == total_minutes(minutes, ex)
        left == sort_values(docs)
        right == sort_values(totals)
        n == IF Len(left) > Len(right) THEN Len(left) ELSE Len(right)
        Sum(count, order) ==
            LET RECURSIVE Upto(_)
                Upto(k) == IF k = 0 THEN 0 ELSE count[order[k]] + Upto(k - 1)
            IN  Upto(Len(order))
    IN  [ i \in 1..n |->
            [ climate_institution |-> IF i <= Len(left) THEN left[i] ELSE "",
              climate_docs |-> IF i <= Len(left) THEN docs[left[i]] ELSE NoCount,
              climate_excerpts |->
                  IF i <= Len(left) THEN excerpts[left[i]] ELSE NoCount,
              no_climate_institution |->
                  IF i <= Len(right) THEN right[i] ELSE "",
              no_climate_total_minutes |->
                  IF i <= Len(right) THEN totals[right[i]] ELSE NoCount ] ]
        \o << [ climate_institution |-> "TOTAL",
                climate_docs |-> Sum(docs, left),
                climate_excerpts |-> Sum(excerpts, left),
                no_climate_institution |-> "TOTAL",
                no_climate_total_minutes |-> Sum(totals, right) ] >>

\* left["period"] = left.apply(_period_str, axis=1): on a left table without
\* rows apply returns a frame, not a column; whether the assignment then
\* raises depends on the pandas release
table2_outcomes(ex) ==
    IF climate_institutions(ex) = {} THEN {"ValueError", "table"} ELSE {"table"}

----------------------------------------------------------------------------
(* run_figures.                                                            *)

\* load_data: a table with a Date (or date) column gets date and year columns
LoadedColumns(columns) ==
    IF "Date" \in columns \/ "date" \in columns
    THEN columns \cup {"date", "year"}
    ELSE columns

\* the calls of _require_columns in load_data, in order
FigureChecks ==
    << [name |-> "speeches_raw.csv", cols |-> <<"year", "institution">>],
       [name |-> "minutes_raw.csv", cols |-> <<"year", "institution">>],
       [name |-> "speeches_verified.csv", cols |-> <<"year", "speech_id">>],
       [name |-> "minutes_verified.csv", cols |-> <<"year", "minute_id">>],
       [name |-> "excerpts_classified.csv",
        cols |-> <<"doc_type", "institution", "speech_id", "minute_id",
                   "ensemble_level">>] >>

\* speech_first.index: the institutions of the speech excerpts
SpeechFirstInsts(ex) ==
    { ex[i].institution : i \in { j \in DOMAIN ex : ex[j].doc_type = "speech" } }
    \ {NaN}

MinuteFirstInsts(ex) ==
    { ex[i].institution : i \in { j \in DOMAIN ex : ex[j].doc_type = "minute" } }
    \ {NaN}

\* speech_first[inst] is a year: some speech excerpt of inst joins a row of
\* speeches_raw (the year of a speech row is taken to be non-null)
HasFirstSpeech(inp, inst) ==
    \E j \in DOMAIN inp.ex :
        /\ inp.ex[j].doc_type = "speech"
        /\ inp.ex[j].institution = inst
        /\ \E i \in DOMAIN inp.speeches : speech_id(i) = inp.ex[j].speech_id

\* minute_first[inst] is a year: some minute excerpt of inst joins a row of
\* minutes_raw whose year (load_data: the year of its parsed Date) is non-null
HasFirstMinute(inp, inst) ==
    \E j \in DOMAIN inp.ex :
        /\ inp.ex[j].doc_type = "minute"
        /\ inp.ex[j].institution = inst
        /\ \E i \in DOMAIN inp.minutes :
              /\ minute_id(i) = inp.ex[j].minute_id
              /\ ~to_datetime(inp.minutes[i].Date).nat

\* the institutions of the rows list of fig_first_mention_lag (lines 305-319)
LagRows(inp) ==
    { inst \in SpeechFirstInsts(inp.ex) \cap MinuteFirstInsts(inp.ex) :
        HasFirstSpeech(inp, inst) /\ HasFirstMinute(inp, inst) }

\* fig_commitment_grouped: the five commitment levels that get a bar, in tenths
levels_numeric == << 10, 15, 20, 25, 30 >>

\* the p-value printed in the title of fig_commitment_grouped, in thousandths
TitleMannWhitneyP == 29

\* (sample == lv).sum(): the excerpts of a sample that fall in the bar of lv
Bucket(sample, lv) == Cardinality({ i \in DOMAIN sample : sample[i] = lv })

\* what fig_commitment_grouped draws: for each document type the n of the
\* legend and the excerpts behind each bar (a bar's height is
\* round(100.0 * bucket / n, 1)), and the p-value of the title
fig_commitment_grouped(ex) ==
    LET speech == levels(ex, "speech")
        minute == levels(ex, "minute")
    IN  [ speech_n |-> Len(speech),
          minute_n |-> Len(minute),
          speech_bucket |->
              [k \in DOMAIN levels_numeric |-> Bucket(speech, levels_numeric[k])],
          minute_bucket |->
              [k \in DOMAIN levels_numeric |-> Bucket(minute, levels_numeric[k])],
          title_p |-> TitleMannWhitneyP ]

LoadedFilesAll == FileNames

\* the files load_data reads
LoadedFiles ==
    { "speeches_raw.csv", "minutes_raw.csv", "speeches_verified.csv",
      "minutes_verified.csv", "excerpts_classified.csv" }

\* pd.read_csv on each file of a set
ReadCsv(files) == [f \in FileNames |-> IF f \in files THEN reads[f] + 1 ELSE reads[f]]

----------------------------------------------------------------------------
(* The inputs a run is started on.                                         *)

RECURSIVE SubsetsUpTo(_, _)
SubsetsUpTo(S, k) ==
    IF k = 0 THEN {{}}
    ELSE LET smaller == SubsetsUpTo(S, k - 1)
         IN  smaller \cup { T \cup {x} : T \in smaller, x \in S }

Insts == {ECB, BoJ, NaN}
Harmonised == EXCLUDED_NON_CENTRAL \cup {ECB, NaN}
DocIds == {0, 1}
Dates ==
    { Unparseable, DateText(20190630), DateText(LAGARDE_COUNT_WINDOW_START),
      DateText(20191031), DateText(LAGARDE_APPOINTMENT_DATE) }

InWindow == DateText(LAGARDE_APPOINTMENT_DATE)

DefaultSpeeches == << SpeechRow(ECB, ECB), SpeechRow(BoJ, BoJ) >>
DefaultMinutes == << MinuteRow(ECB, InWindow), MinuteRow(BoJ, InWindow) >>
DefaultStage1 == << 0, 1 >>
DefaultEx == << SpeechExcerpt(0, ECB, 20), MinuteExcerpt(0, ECB, 10) >>

Files(speeches, minutes, stage1_s, stage1_m, ex, columns) ==
    [speeches |-> speeches, minutes |-> minutes, stage1_s |-> stage1_s,
     stage1_m |-> stage1_m, ex |-> ex, columns |-> columns]

\* the ids of a set in ascending order
RECURSIVE Ascending(_)
Ascending(S) ==
    IF S = {} THEN <<>>
    ELSE LET least == CHOOSE x \in S : \A y \in S : x <= y
         IN  << least >> \o Ascending(S \ {least})

\* one excerpt of institution inst for each speech id of S
SpeechExcerptsOf(S, inst) ==
    LET ids == Ascending(S)
    IN  [i \in DOMAIN ids |-> SpeechExcerpt(ids[i], inst, 20)]

\* one excerpt of institution inst for each minute id of M
MinuteExcerptsOf(M, inst) ==
    LET ids == Ascending(M)
    IN  [i \in DOMAIN ids |-> MinuteExcerpt(ids[i], inst, 10)]

\* speeches of one institution under every harmonised name; excerpts of any
\* of the speeches, possibly one with a null id
CoreInputs ==
    { Files(sp, DefaultMinutes, DefaultStage1, DefaultStage1,
            SpeechExcerptsOf(S, ECB)
              \o (IF null THEN << SpeechExcerpt(NaNId, ECB, 20) >> ELSE <<>>)
              \o << MinuteExcerpt(0, ECB, 10) >>,
            FullColumns) :
        sp \in SeqsUpTo({ SpeechRow(ECB, h) : h \in Harmonised }, MaxSpeeches),
        S \in SUBSET DocIds, null \in BOOLEAN }

\* speeches and minutes of every institution; excerpts of any of the documents
PairedInputs ==
    { Files(sp, mn, DefaultStage1, DefaultStage1,
            SpeechExcerptsOf(S, ECB) \o MinuteExcerptsOf(M, ECB), FullColumns) :
        sp \in SeqsUpTo({ SpeechRow(i, i) : i \in Insts }, MaxSpeeches),
        mn \in SeqsUpTo({ MinuteRow(i, InWindow) : i \in Insts }, MaxMinutes),
        S \in SUBSET DocIds, M \in SUBSET DocIds }

\* ECB minutes on every side of the two window starts and minutes of another
\* institution; minute excerpts labelled ECB and labelled otherwise
EcbInputs ==
    { Files(DefaultSpeeches, mn, DefaultStage1, DefaultStage1,
            << SpeechExcerpt(0, ECB, 20) >>
              \o MinuteExcerptsOf(E, ECB) \o MinuteExcerptsOf(B, BoJ),
            FullColumns) :
        mn \in SeqsUpTo({ MinuteRow(ECB, d) : d \in Dates }
                          \cup { MinuteRow(BoJ, InWindow) }, MaxEcbMinutes),
        E \in SUBSET (DocIds \cup {2}), B \in SUBSET {0} }

PairedExcerpts ==
    { SpeechExcerpt(i, ECB, 20) : i \in DocIds }
    \cup { MinuteExcerpt(i, ECB, 20) : i \in DocIds }

\* keyword-filtered id lists of every length, with excerpts of both types
Stage1Inputs ==
    { Files(DefaultSpeeches, DefaultMinutes, s1s, s1m, ex, FullColumns) :
        s1s \in SeqsUpTo(DocIds, MaxStage1),
        s1m \in SeqsUpTo(DocIds, MaxStage1),
        ex \in SeqsUpTo(PairedExcerpts, MaxExcerpts) }

\* n core speeches of which vs have excerpts, m minutes of which vm have
RateFiles(n, vs, m, vm) ==
    Files([i \in 1..n |-> SpeechRow(ECB, ECB)],
          [i \in 1..m |-> MinuteRow(ECB, InWindow)],
          [i \in 1..n |-> i - 1],
          [i \in 1..m |-> i - 1],
          [i \in 1..vs |-> SpeechExcerpt(i - 1, ECB, 20)]
              \o [i \in 1..vm |-> MinuteExcerpt(i - 1, ECB, 10)],
          FullColumns)

RateInputs ==
    UNION { { RateFiles(n, vs, m, vm) : vs \in 0..n, vm \in 0..m } :
            n \in 1..MaxRateDocs, m \in 1..MaxRateDocs }

\* complete tables whose files lack up to MaxMissing columns
SchemaInputs ==
    LET cells == UNION { { <<f, c>> : c \in FullColumns[f] } : f \in FileNames }
    IN  { Files(DefaultSpeeches, DefaultMinutes, DefaultStage1, DefaultStage1,
                DefaultEx,
                [f \in FileNames |->
                    { c \in FullColumns[f] : <<f, c>> \notin gone }]) :
          gone \in SubsetsUpTo(cells, MaxMissing) }

\* commitment levels in tenths: the five of the scale, two off the scale, null
LevelValues == { 10, 15, 20, 25, 30, 12, 40, NaNLevel }

\* complete tables whose excerpts carry every commitment level
LevelInputs ==
    { Files(DefaultSpeeches, DefaultMinutes, DefaultStage1, DefaultStage1,
            DefaultEx \o more, FullColumns) :
        more \in SeqsUpTo({ SpeechExcerpt(1, ECB, l) : l \in LevelValues }
                            \cup { MinuteExcerpt(1, ECB, l) : l \in LevelValues },
                          MaxLevelExcerpts) }

\* minutes of three institutions and of none; minute excerpts of each
\* institution, of none, without a document id, and several of one document
Table2Inputs ==
    { Files(DefaultSpeeches, mn, DefaultStage1, DefaultStage1,
            << SpeechExcerpt(0, ECB, 20) >>
              \o [i \in 1..a |-> MinuteExcerpt(0, ECB, 10)]
              \o (IF b THEN << MinuteExcerpt(1, ECB, 10) >> ELSE <<>>)
              \o (IF c THEN << MinuteExcerpt(0, BoJ, 10) >> ELSE <<>>)
              \o (IF d THEN << MinuteExcerpt(1, Fed, 10) >> ELSE <<>>)
              \o (IF e THEN << MinuteExcerpt(0, NaN, 10) >> ELSE <<>>)
              \o (IF f THEN << MinuteExcerpt(NaNId, BoJ, 10) >> ELSE <<>>),
            FullColumns) :
        mn \in SeqsUpTo({ MinuteRow(i, InWindow) : i \in Insts \cup {Fed} },
                        MaxMinutes),
        a \in 0..MaxDuplicates, b \in BOOLEAN, c \in BOOLEAN, d \in BOOLEAN,
        e \in BOOLEAN, f \in BOOLEAN }

OutputFiles ==
    { "main_numbers.json", "within_institution_rates.csv",
      "table1_overview.csv", "table2_institution_heterogeneity.csv",
      "fig1_temporal_trends.pdf", "fig11_temporal_commitment.pdf",
      "fig6_lagarde_effect.pdf", "fig_commitment_grouped.pdf",
      "fig_first_mention_lag.pdf" }

----------------------------------------------------------------------------
(* The run.                                                                *)

\* the state in which run_all.main is entered
Start ==
    /\ pc = "read_inputs"
    /\ err = <<>>
    /\ paired_df = <<>>
    /\ mw = "none"
    /\ main_numbers = <<>>
    /\ json_file = <<>>
    /\ csv_file = <<>>
    /\ loaded = <<>>
    /\ t1 = <<>>
    /\ written = {}
    /\ reads = [f \in FileNames |-> 0]
    /\ t2 = <<>>
    /\ fig = <<>>

Init ==
    /\ \/ input \in CoreInputs
       \/ input \in PairedInputs
       \/ input \in EcbInputs
       \/ input \in Stage1Inputs
       \/ input \in RateInputs
       \/ input \in SchemaInputs
       \/ input \in LevelInputs
       \/ input \in Table2Inputs
    /\ Start

InitCore == input \in CoreInputs /\ Start
InitPaired == input \in PairedInputs /\ Start
InitEcb == input \in EcbInputs /\ Start
InitSchema == input \in SchemaInputs /\ Start
InitTable2 == input \in Table2Inputs /\ Start

\* an exception leaves the run: nothing catches it
Raise(e) == pc' = "failed" /\ err' = e

Error(type, where) ==
    << [type |-> type, name |-> "", missing |-> <<>>, where |-> where] >>

\* run_all.main -> run_tables -> run_analysis: the seven pd.read_csv
ReadInputs ==
    /\ pc = "read_inputs"
    /\ pc' = "require_columns"
    /\ UNCHANGED <<input, err, paired_df, mw, main_numbers, json_file,
                   csv_file, loaded, t1, written>>
    /\ reads' = ReadCsv(FileNames)
    /\ UNCHANGED <<t2, fig>>

\* the five _require_columns calls of run_analysis
RequireColumns ==
    /\ pc = "require_columns"
    /\ LET e == RunChecks(input.columns, AnalysisChecks, 1, "run_analysis")
       IN  IF e # <<>> THEN Raise(e)
           ELSE pc' = "paired" /\ err' = err
    /\ UNCHANGED <<input, paired_df, mw, main_numbers, json_file, csv_file,
                   loaded, t1, written>>
    /\ UNCHANGED <<reads, t2, fig>>

\* lines 68-93: ids, core sample, verified ids, paired table, paired t-test
BuildPaired ==
    /\ pc = "paired"
    /\ LET rows == paired_rows(input.speeches, input.minutes, input.ex)
           e == ttest_rel(rows)
       IN  /\ paired_df' = rows
           /\ IF e # <<>> THEN Raise(e)
              ELSE pc' = "mannwhitney" /\ err' = err
    /\ UNCHANGED <<input, mw, main_numbers, json_file, csv_file, loaded, t1,
                   written>>
    /\ UNCHANGED <<reads, t2, fig>>

\* lines 95-97
MannWhitney ==
    /\ pc = "mannwhitney"
    /\ \E r \in mannwhitneyu(levels(input.ex, "speech"),
                             levels(input.ex, "minute")) :
           IF r = "ValueError"
           THEN Raise(Error("ValueError", "mannwhitneyu")) /\ mw' = mw
           ELSE pc' = "main_numbers" /\ err' = err /\ mw' = r
    /\ UNCHANGED <<input, paired_df, main_numbers, json_file, csv_file,
                   loaded, t1, written>>
    /\ UNCHANGED <<reads, t2, fig>>

\* lines 99-158: the ECB sub-analysis and the dict literal
BuildMainNumbers ==
    /\ pc = "main_numbers"
    /\ LET z == ZeroDivisionAt(input)
       IN  IF z # ""
           THEN Raise(Error("ZeroDivisionError", z))
                /\ main_numbers' = main_numbers
           ELSE /\ \E m \in MainNumbers(input, paired_df, mw) :
                       main_numbers' = <<m>>
                /\ pc' = "write_json"
                /\ err' = err
    /\ UNCHANGED <<input, paired_df, mw, json_file, csv_file, loaded, t1,
                   written>>
    /\ UNCHANGED <<reads, t2, fig>>

\* the record is not written
WriteMainNumbersSkipped ==
    /\ pc = "write_json"
    /\ pc' = "write_csv"
    /\ UNCHANGED <<input, err, paired_df, mw, main_numbers, json_file, csv_file,
                   loaded, t1, written, reads, t2, fig>>

\* lines 160-161: json.dump(main_numbers, f, indent=2, sort_keys=True)
WriteMainNumbers ==
    /\ pc = "write_json"
    /\ json_file' = main_numbers
    /\ written' = written \cup {"main_numbers.json"}
    /\ pc' = "write_csv"
    /\ UNCHANGED <<input, err, paired_df, mw, main_numbers, csv_file, loaded, t1>>
    /\ UNCHANGED <<reads, t2, fig>>

\* line 163: paired_df.to_csv
WritePairedCsv ==
    /\ pc = "write_csv"
    /\ csv_file' = <<paired_df>>
    /\ written' = written \cup {"within_institution_rates.csv"}
    /\ pc' = "read_json"
    /\ UNCHANGED <<input, err, paired_df, mw, main_numbers, json_file, loaded, t1>>
    /\ UNCHANGED <<reads, t2, fig>>

\* tables.py line 128: json.loads of main_numbers.json
ReadMainNumbers ==
    /\ pc = "read_json"
    /\ IF json_file = <<>>
       THEN Raise(Error("FileNotFoundError", "main_numbers.json"))
            /\ loaded' = loaded
       ELSE loaded' = json_file /\ pc' = "build_tables" /\ err' = err
    /\ UNCHANGED <<input, paired_df, mw, main_numbers, json_file, csv_file,
                   t1, written>>
    /\ UNCHANGED <<reads, t2, fig>>

\* tables.py lines 130-131: table1_overview, table2_institution_heterogeneity
BuildTables ==
    /\ pc = "build_tables"
    /\ t1' = << table1_overview(loaded[1]) >>
    /\ reads' = ReadCsv({"minutes_raw.csv", "excerpts_classified.csv"})
    /\ \E r \in table2_outcomes(input.ex) :
           IF r = "ValueError"
           THEN Raise(Error("ValueError", "table2_institution_heterogeneity"))
                /\ t2' = t2
           ELSE /\ t2' = << table2_institution_heterogeneity(input.minutes,
                                                            input.ex) >>
                /\ pc' = "write_table1"
                /\ err' = err
    /\ UNCHANGED <<input, paired_df, mw, main_numbers, json_file,
                   csv_file, loaded, written, fig>>

\* tables.py line 133
WriteTable1 ==
    /\ pc = "write_table1"
    /\ written' = written \cup {"table1_overview.csv"}
    /\ pc' = "write_table2"
    /\ UNCHANGED <<input, err, paired_df, mw, main_numbers, json_file,
                   csv_file, loaded, t1>>
    /\ UNCHANGED <<reads, t2, fig>>

\* tables.py line 134
WriteTable2 ==
    /\ pc = "write_table2"
    /\ written' = written \cup {"table2_institution_heterogeneity.csv"}
    /\ pc' = "load_data"
    /\ UNCHANGED <<input, err, paired_df, mw, main_numbers, json_file,
                   csv_file, loaded, t1>>
    /\ UNCHANGED <<reads, t2, fig>>

\* figures.py load_data: five pd.read_csv, the date columns, five checks
LoadData ==
    /\ pc = "load_data"
    /\ LET e == RunChecks([f \in FileNames |-> LoadedColumns(input.columns[f])],
                          FigureChecks, 1, "load_data")
       IN  IF e # <<>> THEN Raise(e)
           ELSE pc' = "fig1" /\ err' = err
    /\ UNCHANGED <<input, paired_df, mw, main_numbers, json_file, csv_file,
                   loaded, t1, written>>
    /\ reads' = ReadCsv(LoadedFiles)
    /\ UNCHANGED <<t2, fig>>

\* a figure function that ends with plt.savefig
Render(at, file, next, failure) ==
    /\ pc = at
    /\ IF failure # <<>> THEN Raise(failure) /\ written' = written
       ELSE /\ written' = written \cup {file}
            /\ pc' = next
            /\ err' = err
    /\ UNCHANGED <<input, paired_df, mw, main_numbers, json_file, csv_file,
                   loaded, t1>>
    /\ UNCHANGED <<reads, t2>>

Fig1 ==
    /\ Render("fig1", "fig1_temporal_trends.pdf", "fig11", <<>>)
    /\ UNCHANGED fig

\* excerpts["year"] is read but is not among the columns load_data requires
Fig11 ==
    /\ Render("fig11", "fig11_temporal_commitment.pdf", "fig6",
              IF "year" \in LoadedColumns(input.columns["excerpts_classified.csv"])
              THEN <<>> ELSE Error("KeyError", "fig11_temporal_commitment"))
    /\ UNCHANGED fig

Fig6 ==
    /\ Render("fig6", "fig6_lagarde_effect.pdf", "fig_commitment_grouped", <<>>)
    /\ UNCHANGED fig

\* empty samples give nan bars and nan means, which matplotlib draws
FigCommitmentGrouped ==
    /\ Render("fig_commitment_grouped", "fig_commitment_grouped.pdf",
              "fig_first_mention_lag", <<>>)
    /\ fig' = << fig_commitment_grouped(input.ex) >>

\* mean_lag = sum(...) / len(data) raises when no institution has both firsts
FigFirstMentionLag ==
    /\ Render("fig_first_mention_lag", "fig_first_mention_lag.pdf", "done",
              IF LagRows(input) = {}
              THEN Error("ZeroDivisionError", "fig_first_mention_lag") ELSE <<>>)
    /\ UNCHANGED fig

Next ==
    \/ ReadInputs
    \/ RequireColumns
    \/ BuildPaired
    \/ MannWhitney
    \/ BuildMainNumbers
    \/ WriteMainNumbers
    \/ WritePairedCsv
    \/ ReadMainNumbers
    \/ BuildTables
    \/ WriteTable1
    \/ WriteTable2
    \/ LoadData
    \/ Fig1
    \/ Fig11
    \/ Fig6
    \/ FigCommitmentGrouped
    \/ FigFirstMentionLag

Spec == Init /\ [][Next]_vars

\* the same run on the inputs of one family
SpecCore == InitCore /\ [][Next]_vars
SpecPaired == InitPaired /\ [][Next]_vars
SpecEcb == InitEcb /\ [][Next]_vars
SpecSchema == InitSchema /\ [][Next]_vars
SpecTable2 == InitTable2 /\ [][Next]_vars

----------------------------------------------------------------------------
(* Positions of a run.                                                     *)

\* run_analysis has passed its schema check
Validated == 
    /\ pc \notin {"read_inputs", "require_columns"}
    /\ (pc = "failed" => err[1].where # "run_analysis")

\* the loop of lines 79-91 has run
PairedBuilt == Validated /\ pc # "paired"

\* the dict of lines 112-158 has been built
RecordBuilt == main_numbers # <<>>

Record == main_numbers[1]

----------------------------------------------------------------------------
(* C1.                                                                     *)

\* C1: a run is all-or-nothing: a run that ends in an error has written no
\* output file, and a run that completes has written all nine.
C1_AllOrNothing ==
    /\ (pc = "failed" => written = {})
    /\ (pc = "done" => written = OutputFiles)

----------------------------------------------------------------------------
(* C2.                                                                     *)

\* the ratios of the record whose denominator is zero on this input
ZeroDenominators(inp) ==
    { r \in { "speech_false_positive_rate_pct", "minute_false_positive_rate_pct",
              "speech_rate_core_denom_pct", "minute_rate_pct", "gap_ratio",
              "ecb_lagarde_rate_pct",
              "ecb_lagarde_rate_if_strict_appointment_window_pct" } :
        CASE r = "speech_false_positive_rate_pct" ->
               Cardinality(Range(inp.stage1_s) \ {NaNId}) = 0
          [] r = "minute_false_positive_rate_pct" ->
               Cardinality(Range(inp.stage1_m) \ {NaNId}) = 0
          [] r = "speech_rate_core_denom_pct" ->
               \A i \in DOMAIN inp.speeches :
                   inp.speeches[i].institution_harmonised \in EXCLUDED_NON_CENTRAL
          [] r = "minute_rate_pct" -> Len(inp.minutes) = 0
          [] r = "gap_ratio" ->
               ~\E j \in DOMAIN inp.ex :
                   inp.ex[j].doc_type = "minute" /\ inp.ex[j].minute_id # NaNId
          [] r = "ecb_lagarde_rate_pct" ->
               ~\E i \in DOMAIN inp.minutes :
                   /\ inp.minutes[i].institution = ECB
                   /\ inp.minutes[i].Date.parses
                   /\ inp.minutes[i].Date.ymd >= 20190701
          [] r = "ecb_lagarde_rate_if_strict_appointment_window_pct" ->
               ~\E i \in DOMAIN inp.minutes :
                   /\ inp.minutes[i].institution = ECB
                   /\ inp.minutes[i].Date.parses
                   /\ inp.minutes[i].Date.ymd >= 20191101 }

\* C2: when any ratio of run_analysis has a zero denominator the run raises
\* and no metrics record is built or written.
C2_ZeroDenominatorRaises ==
    ZeroDenominators(input) # {} =>
        /\ main_numbers = <<>>
        /\ json_file = <<>>
        /\ pc \in {"read_inputs", "require_columns", "paired", "mannwhitney",
                   "main_numbers", "failed"}

----------------------------------------------------------------------------
(* C3 and C4: the paired institutional rate table.                         *)

\* the institution names with at least one speech row and one minute row
PairedNames(inp) ==
    { n \in { inp.speeches[i].institution : i \in DOMAIN inp.speeches } \ {NaN} :
        \E j \in DOMAIN inp.minutes : inp.minutes[j].institution = n }

\* the place of a name in alphabetical order
Place(name) == CHOOSE k \in DOMAIN InstOrder : InstOrder[k] = name

\* C3: the paired table holds exactly one row for each institution name with
\* at least one speech row and at least one minute row, and no other row; the
\* rows are in order of institution name, without duplicates.
C3_PairedRowsExactlyBoth ==
    PairedBuilt =>
        /\ { paired_df[i].institution : i \in DOMAIN paired_df } = PairedNames(input)
        /\ \A i, j \in DOMAIN paired_df :
               i < j => Place(paired_df[i].institution) < Place(paired_df[j].institution)

\* an institution with speeches but no minutes, one with minutes but no
\* speeches, and a table that holds a row
C3_Witness ==
    /\ PairedBuilt
    /\ Len(paired_df) = 1
    /\ \E i \in DOMAIN input.speeches :
           /\ input.speeches[i].institution # NaN
           /\ \A j \in DOMAIN input.minutes :
                  input.minutes[j].institution # input.speeches[i].institution
    /\ written # {}

\* C4: in every row of the paired table both rates lie in [0, 100]: the
\* numerator never exceeds the denominator and the denominator is not zero.
C4_PairedRatesInRange ==
    PairedBuilt =>
        \A i \in DOMAIN paired_df :
            /\ paired_df[i].speech_rate.den > 0
            /\ paired_df[i].minute_rate.den > 0
            /\ 0 <= paired_df[i].speech_rate.num
            /\ paired_df[i].speech_rate.num <= 100 * paired_df[i].speech_rate.den
            /\ 0 <= paired_df[i].minute_rate.num
            /\ paired_df[i].minute_rate.num <= 100 * paired_df[i].minute_rate.den

\* a table of two rows, one institution with a rate strictly between 0 and
\* 100 while excerpts refer to documents of the other institution too
C4_Witness ==
    /\ PairedBuilt
    /\ \E i \in DOMAIN paired_df :
           /\ paired_df[i].speech_rate.num > 0
           /\ paired_df[i].speech_rate.num < 100 * paired_df[i].speech_rate.den
    /\ Cardinality(speech_ids_verified(input.ex))
         + Cardinality(minute_ids_verified(input.ex)) >= 2

----------------------------------------------------------------------------
(* C5, C6, C7: the overall rates.                                          *)

\* every classified excerpt refers to an existing document
ExcerptsReferToDocuments(inp) ==
    \A j \in DOMAIN inp.ex :
        /\ inp.ex[j].doc_type = "speech" =>
               \E i \in DOMAIN inp.speeches : inp.ex[j].speech_id = i - 1
        /\ inp.ex[j].doc_type = "minute" =>
               \E i \in DOMAIN inp.minutes : inp.ex[j].minute_id = i - 1

\* C5: when every classified excerpt refers to an existing document, the
\* reported speech_rate_core_denom_pct and minute_rate_pct lie in [0, 100].
C5_MentionRatesInRange ==
    (RecordBuilt /\ ExcerptsReferToDocuments(input)) =>
        /\ 0 <= Record.speech_rate_core_denom_pct
        /\ Record.speech_rate_core_denom_pct <= 1000
        /\ 0 <= Record.minute_rate_pct
        /\ Record.minute_rate_pct <= 1000

\* C6: the reported false-positive rates lie in [0, 100] for every input the
\* loader accepts.
C6_FalsePositiveRatesInRange ==
    RecordBuilt =>
        /\ 0 <= Record.speech_false_positive_rate_pct
        /\ Record.speech_false_positive_rate_pct <= 1000
        /\ 0 <= Record.minute_false_positive_rate_pct
        /\ Record.minute_false_positive_rate_pct <= 1000

\* n / d lies exactly halfway between two units
IsTie(n, d) == 2 * (n - (n \div d) * d) = d

\* C7: gap_ratio equals speech_rate_core_denom_pct / minute_rate_pct rounded
\* to one decimal, both operands being the reported (rounded) values.  Stated
\* for the records in which neither quotient is a decimal tie, where the
\* rounding of the double is the rounding of the exact quotient.
C7_GapRatioFromReportedRates ==
    ( /\ RecordBuilt
      /\ Record.minute_rate_pct > 0
      /\ ~IsTie(10 * Record.verified_speech_docs * Record.minute_total,
                Record.speech_total_core_sample * Record.verified_minute_docs)
      /\ ~IsTie(10 * Record.speech_rate_core_denom_pct, Record.minute_rate_pct) )
    => Record.gap_ratio \in
         RoundHalf(10 * Record.speech_rate_core_denom_pct, Record.minute_rate_pct)

----------------------------------------------------------------------------
(* C8: the ECB sub-analysis.                                               *)

\* ECB minutes whose Date parses to a day on or after ymd, by row number
EcbMinutesFrom(inp, ymd) ==
    { i \in DOMAIN inp.minutes :
        /\ inp.minutes[i].institution = "European Central Bank"
        /\ inp.minutes[i].Date.parses
        /\ inp.minutes[i].Date.ymd >= ymd }

\* of these, the rows whose id occurs among the ECB minute excerpts
WithEcbExcerpt(inp, rows) ==
    { i \in rows :
        \E j \in DOMAIN inp.ex :
            /\ inp.ex[j].doc_type = "minute"
            /\ inp.ex[j].institution = "European Central Bank"
            /\ inp.ex[j].minute_id = i - 1 }

\* C8: the main variant counts exactly the ECB minutes dated on or after
\* 2019-07-01 (none dated before, none with an unparseable date), the strict
\* variant exactly those dated on or after 2019-11-01; both are in the same
\* record; the climate-document count is the number of in-window ECB minutes
\* whose id occurs among the ECB minute excerpts.
C8_EcbWindows ==
    RecordBuilt =>
        LET main == EcbMinutesFrom(input, 20190701)
            strict == EcbMinutesFrom(input, 20191101)
        IN  /\ Record.ecb_lagarde_total = Cardinality(main)
            /\ Record.ecb_lagarde_docs = Cardinality(WithEcbExcerpt(input, main))
            /\ Record.ecb_lagarde_total_if_strict_appointment_window
                 = Cardinality(strict)
            /\ Cardinality(main) > 0 =>
                 /\ Record.ecb_lagarde_rate_pct.kind = "num"
                 /\ Record.ecb_lagarde_rate_pct.v \in
                      RoundHalf(1000 * Cardinality(WithEcbExcerpt(input, main)),
                                Cardinality(main))
            /\ Cardinality(strict) > 0 =>
                 /\ Record.ecb_lagarde_rate_if_strict_appointment_window_pct.kind = "num"
                 /\ Record.ecb_lagarde_rate_if_strict_appointment_window_pct.v \in
                      RoundHalf(1000 * Cardinality(WithEcbExcerpt(input, strict)),
                                Cardinality(strict))

\* a written record for three ECB minutes: one dated the day before the count
\* window, one on its first day, one on the appointment date with an excerpt
C8_Witness ==
    /\ json_file # <<>>
    /\ \E h, i, k \in DOMAIN input.minutes :
           /\ input.minutes[h] = MinuteRow(ECB, DateText(20190630))
           /\ input.minutes[i] = MinuteRow(ECB, DateText(20190701))
           /\ input.minutes[k] = MinuteRow(ECB, DateText(20191101))
    /\ json_file[1].ecb_lagarde_total = 2
    /\ json_file[1].ecb_lagarde_total_if_strict_appointment_window = 1
    /\ json_file[1].ecb_lagarde_docs = 1

----------------------------------------------------------------------------
(* C9: the schema check of run_analysis.                                   *)

\* the files run_analysis checks that lack a required column, in check order
RECURSIVE LackingFrom(_, _)
LackingFrom(inp, i) ==
    IF i > Len(AnalysisChecks) THEN <<>>
    ELSE (IF \E k \in DOMAIN AnalysisChecks[i].cols :
                AnalysisChecks[i].cols[k] \notin inp.columns[AnalysisChecks[i].name]
          THEN << AnalysisChecks[i] >> ELSE <<>>)
         \o LackingFrom(inp, i + 1)

\* C9: if an input table lacks a required column, run_analysis raises an
\* error naming the file and all of its missing required columns, before any
\* aggregation and before any output is written; otherwise the check raises
\* nothing.
C9_SchemaErrorNamesAllMissing ==
    pc \notin {"read_inputs", "require_columns"} =>
        LET lacking == LackingFrom(input, 1)
        IN  IF lacking # <<>>
            THEN /\ pc = "failed"
                 /\ err[1].type = "ValueError"
                 /\ err[1].where = "run_analysis"
                 /\ err[1].name = lacking[1].name
                 /\ Range(err[1].missing) =
                      Range(lacking[1].cols) \ input.columns[lacking[1].name]
                 /\ Len(err[1].missing) = Cardinality(Range(err[1].missing))
                 /\ paired_df = <<>> /\ mw = "none" /\ main_numbers = <<>>
                 /\ json_file = <<>> /\ csv_file = <<>> /\ written = {}
            ELSE ~(pc = "failed" /\ err[1].where = "run_analysis")

\* a run that failed on a file lacking two required columns
C9_Witness ==
    /\ pc = "failed"
    /\ err[1].where = "run_analysis"
    /\ Len(err[1].missing) = 2

----------------------------------------------------------------------------
(* C10: the core sample.                                                   *)

\* C10: count(core sample) = count(all speeches) - count(speeches whose
\* harmonised name is one of the four excluded names), hence a speech with
\* any other or a missing harmonised name is kept; the minutes total is the
\* number of minute rows.
C10_CoreSampleExcludesFour ==
    RecordBuilt =>
        /\ Record.speech_total_core_sample =
             Len(input.speeches)
             - Cardinality({ i \in DOMAIN input.speeches :
                   input.speeches[i].institution_harmonised \in
                     { "Bank for International Settlements",
                       "International Monetary Fund",
                       "Office of the Superintendent of Financial Institutions",
                       "Swiss Federal Banking Commission" } })
        /\ Record.minute_total = Len(input.minutes)

\* a record for one excluded speech and one speech with a missing name
C10_Witness ==
    /\ RecordBuilt
    /\ Len(input.speeches) = 2
    /\ Record.speech_total_core_sample = 1
    /\ \E i \in DOMAIN input.speeches :
           input.speeches[i].institution_harmonised = NaN
    /\ \E i \in DOMAIN input.speeches :
           input.speeches[i].institution_harmonised = "Swiss Federal Banking Commission"

----------------------------------------------------------------------------
(* C11: reads of the input files.                                          *)

\* C11: within one run every input file is read exactly once, at the start
\* of the run: once run_analysis has read a file, no later step reads it again.
C11_InputsReadOnce ==
    /\ \A f \in FileNames : reads[f] <= 1
    /\ pc # "read_inputs" => \A f \in FileNames : reads[f] = 1

\* table2_institution_heterogeneity has been called
TableStageBegun == t1 # <<>>

\* load_data has been called
FigureStageBegun ==
    "table2_institution_heterogeneity.csv" \in written /\ pc # "load_data"

\* C11 as amended: run_analysis reads each of the seven input files once, as
\* its first step; the table stage reads minutes_raw.csv and
\* excerpts_classified.csv once more, and the figure stage reads the five
\* files of load_data once more; there is no other read.
C11_ReadsPerStage ==
    \A f \in FileNames :
        reads[f] =
            (IF pc # "read_inputs" THEN 1 ELSE 0)
            + (IF TableStageBegun
                  /\ f \in {"minutes_raw.csv", "excerpts_classified.csv"}
               THEN 1 ELSE 0)
            + (IF FigureStageBegun
                  /\ f \in { "speeches_raw.csv", "minutes_raw.csv",
                             "speeches_verified.csv", "minutes_verified.csv",
                             "excerpts_classified.csv" }
               THEN 1 ELSE 0)

\* a completed run: minutes_raw.csv read three times, speeches_raw.csv twice,
\* the keyword-filtered files once
C11_Witness ==
    /\ pc = "done"
    /\ reads["minutes_raw.csv"] = 3
    /\ reads["speeches_raw.csv"] = 2
    /\ reads["speeches_keyword_filtered.csv"] = 1

----------------------------------------------------------------------------
(* C12: the statistics a figure shows.                                     *)

\* the input for which the p-value of the record is known: one speech
\* excerpt and one minute excerpt with a level each, the levels different
OneLevelEach(inp) ==
    /\ Len(levels(inp.ex, "speech")) = 1
    /\ Len(levels(inp.ex, "minute")) = 1
    /\ levels(inp.ex, "speech")[1] # levels(inp.ex, "minute")[1]

\* C12: the Mann-Whitney p-value shown in the title of the commitment-level
\* chart equals the mannwhitney_p field of the record written in the same run.
C12_ShownPValueFromRecord ==
    (fig # <<>> /\ json_file # <<>> /\ OneLevelEach(input)) =>
        fig[1].title_p = json_file[1].mannwhitney_p

----------------------------------------------------------------------------
(* C13: renderers and absent institutions.                                 *)

FigureFunctions ==
    { "fig1_temporal_trends", "fig11_temporal_commitment", "fig6_lagarde_effect",
      "fig_commitment_grouped", "fig_first_mention_lag" }

\* C13: on input files with all their columns, on which both tests of
\* run_analysis return a number, no figure function raises, in
\* particular not when no institution has both a classified speech excerpt
\* and a classified minute excerpt.
C13_FiguresTolerateAbsence ==
    (input.columns = FullColumns /\ mw = "num" /\ err # <<>>) =>
        err[1].where \notin FigureFunctions

----------------------------------------------------------------------------
(* C14: commitment levels off the scale.                                   *)

RECURSIVE SumSeq(_)
SumSeq(q) == IF q = <<>> THEN 0 ELSE q[1] + SumSeq(Tail(q))

\* C14: when fig_commitment_grouped has drawn its chart without signalling
\* anything, the bars of each document type hold all its non-null excerpts:
\* the bucket counts sum to the n shown in the legend.
C14_BucketsHoldEveryExcerpt ==
    fig # <<>> =>
        /\ SumSeq(fig[1].speech_bucket) = fig[1].speech_n
        /\ SumSeq(fig[1].minute_bucket) = fig[1].minute_n

----------------------------------------------------------------------------
(* C15: the order of the steps of a run.                                   *)

Figures ==
    { "fig1_temporal_trends.pdf", "fig11_temporal_commitment.pdf",
      "fig6_lagarde_effect.pdf", "fig_commitment_grouped.pdf",
      "fig_first_mention_lag.pdf" }

Tables == { "table1_overview.csv", "table2_institution_heterogeneity.csv" }

\* C15: the steps run in a fixed order: validation before aggregation;
\* aggregation and both tests before the write of main_numbers.json; that
\* write before the write of within_institution_rates.csv; both before
\* run_tables reads the record; both tables built before either table CSV is
\* written; both table CSVs written before any figure; and Table 1 is built
\* from the record this run has written.
C15_StepsInOrder ==
    /\ (paired_df # <<>> \/ main_numbers # <<>>) =>
           RunChecks(input.columns, AnalysisChecks, 1, "run_analysis") = <<>>
    /\ "main_numbers.json" \in written =>
           /\ main_numbers # <<>>
           /\ json_file = main_numbers
           /\ paired_df # <<>>
           /\ mw # "none"
    /\ "within_institution_rates.csv" \in written =>
           "main_numbers.json" \in written
    /\ loaded # <<>> =>
           /\ {"main_numbers.json", "within_institution_rates.csv"} \subseteq written
           /\ loaded = main_numbers
    /\ t1 # <<>> => t1[1] = table1_overview(main_numbers[1])
    /\ written \cap Tables # {} => t1 # <<>> /\ t2 # <<>>
    /\ "table2_institution_heterogeneity.csv" \in written =>
           "table1_overview.csv" \in written
    /\ written \cap Figures # {} => Tables \subseteq written

\* a completed run whose Table 1 shows the counts of its own record
C15_Witness ==
    /\ pc = "done"
    /\ written = OutputFiles
    /\ t1[1]["Total documents"].minutes = Len(input.minutes)
    /\ json_file[1].minute_total = Len(input.minutes)

----------------------------------------------------------------------------
(* C16: Table 2.                                                           *)

\* the institution rows of Table 2, without the TOTAL row
T2Rows == SubSeq(t2[1], 1, Len(t2[1]) - 1)

T2Total == t2[1][Len(t2[1])]

\* the rows of one side of Table 2 that name an institution
ClimateSide == { i \in DOMAIN T2Rows : T2Rows[i].climate_institution # "" }
NoClimateSide == { i \in DOMAIN T2Rows : T2Rows[i].no_climate_institution # "" }

\* the minute-type excerpts that carry an institution, by row number
MinuteExcerptsOfInst(inp, inst) ==
    { j \in DOMAIN inp.ex :
        inp.ex[j].doc_type = "minute" /\ inp.ex[j].institution = inst }

RECURSIVE SumOver(_, _)
SumOver(I, cell) ==
    IF I = {} THEN 0
    ELSE LET i == CHOOSE x \in I : TRUE
         IN  cell[i] + SumOver(I \ {i}, cell)

\* C16: every institution with a minute row is on exactly one side of Table
\* 2, the climate side if and only if it has a minute-type excerpt; the TOTAL
\* row holds the sums of the three count columns, the excerpt sum being the
\* number of minute-type excerpts with an institution; and the climate side
\* is in order of document count descending, ties by name.
C16_Table2Partition ==
    t2 # <<>> =>
        /\ \A inst \in { input.minutes[i].institution : i \in DOMAIN input.minutes }
                       \ {NaN} :
               LET l == { i \in ClimateSide : T2Rows[i].climate_institution = inst }
                   r == { i \in NoClimateSide :
                            T2Rows[i].no_climate_institution = inst }
               IN  IF MinuteExcerptsOfInst(input, inst) # {}
                   THEN Cardinality(l) = 1 /\ r = {}
                   ELSE Cardinality(r) = 1 /\ l = {}
        /\ T2Total.climate_docs =
               SumOver(ClimateSide, [i \in ClimateSide |-> T2Rows[i].climate_docs])
        /\ T2Total.climate_excerpts =
               SumOver(ClimateSide, [i \in ClimateSide |-> T2Rows[i].climate_excerpts])
        /\ T2Total.climate_excerpts =
               Cardinality({ j \in DOMAIN input.ex :
                               /\ input.ex[j].doc_type = "minute"
                               /\ input.ex[j].institution # NaN })
        /\ T2Total.no_climate_total_minutes =
               SumOver(NoClimateSide,
                       [i \in NoClimateSide |-> T2Rows[i].no_climate_total_minutes])
        /\ \A i, j \in ClimateSide :
               i < j =>
                   \/ T2Rows[i].climate_docs > T2Rows[j].climate_docs
                   \/ /\ T2Rows[i].climate_docs = T2Rows[j].climate_docs
                      /\ Before(T2Rows[i].climate_institution,
                                T2Rows[j].climate_institution)

\* a written Table 2 with two institutions on the climate side, the later
\* name first because it has more documents, and one on the other side
C16_Witness ==
    /\ "table2_institution_heterogeneity.csv" \in written
    /\ Len(T2Rows) = 2
    /\ T2Rows[1].climate_institution = ECB /\ T2Rows[1].climate_docs = 2
    /\ T2Rows[2].climate_institution = BoJ /\ T2Rows[2].climate_docs = 1
    /\ T2Rows[1].no_climate_institution = Fed
    /\ T2Total.climate_excerpts >= 4

====
